---- MODULE Spec2Model ----
(***************************************************************************)
(* Model of the git-session-orchestrator monitors.                         *)
(*                                                                         *)
(*   SpecFollow   : session_monitor.py, command_follow (the incremental    *)
(*                  tail engine) together with the log files it reads.     *)
(*   SpecSessions : heartbeat_monitor.py, main (the heartbeat/delta loop)  *)
(*                  over the inventories the session monitor reports.      *)
(*   SpecTimers   : the same loop with both timers and the topology free.  *)
(*   SpecGit      : git_coordination.py, main, and load_topology of its   *)
(*                  report.                                                *)
(*   SpecInventory: session_monitor.py, command_inventory and              *)
(*                  command_activity over logs with a working directory,   *)
(*                  a modification time and timestamped lines.             *)
(*                                                                         *)
(* A log file is a sequence of lines.  A line is abstracted to its kind,   *)
(* which decides everything the code does with it:                         *)
(*   "meta"   {"type":"session_meta","payload":{id,timestamp,cwd,...}}     *)
(*   "evt"    any other record whose summary is non-empty                  *)
(*   "tok"    {"type":"event_msg","payload":{"type":"token_count"}}        *)
(*   "bad"    text that is not JSON (json.loads raises JSONDecodeError)    *)
(*   "nonobj" valid JSON that is not an object (42, [1], null, "x")        *)
(* Offsets are byte offsets: every kind has a byte length.                 *)
(***************************************************************************)
EXTENDS Integers, Sequences, FiniteSets, TLC

\* ------------------------------------------------------------------ bounds
MaxEvents == 2     \* appends, truncations, removals, ... the logs see in a run
FreeIds == 3       \* sessions 1..FreeIds come and go one by one
BlockSize == 6     \* sessions FreeIds+1.. are subagents spawned and ended together
MaxClock == 4      \* the monotonic clock stops the run here (ticks of 0.5 s)
MaxCount == 3      \* a branch is at most this many commits ahead and behind
MaxWall == 3       \* the wall clock stops here (ticks of one activity window)
MaxLines == 3      \* lines of a log whose last activity is read

\* ------------------------------------------------------- the log files
Paths == {"p1", "p2"}

LineKinds == {"meta", "evt", "tok", "bad", "nonobj"}

\* The kinds of line a running session appends; its session_meta record is
\* the first line of its log.
AppendKinds == {"evt", "tok", "bad", "nonobj"}

NewLog == <<[kind |-> "meta", emits |-> 0]>>

\* The logs command_follow may find when it starts: none, one of a session
\* that has just started, one of a session that has already worked.
NoFile == [exists |-> FALSE, readable |-> TRUE, active |-> FALSE, lines |-> <<>>]

InitFiles ==
  {NoFile,
   [exists |-> TRUE, readable |-> TRUE, active |-> TRUE, lines |-> NewLog],
   [exists |-> TRUE, readable |-> TRUE, active |-> TRUE,
    lines |-> Append(NewLog, [kind |-> "evt", emits |-> 0])]}

\* Byte length of a line of each kind, newline included.
LineLen(kind) ==
  CASE kind = "meta" -> 3
    [] kind = "evt" -> 2
    [] kind = "tok" -> 3
    [] kind = "bad" -> 1
    [] kind = "nonobj" -> 1

\* The start timestamp in a file's session_meta record.
StartedAt(p) == IF p = "p1" THEN 1 ELSE 2

VARIABLES
  files,       \* path -> [exists, readable, active, lines]
  offsets,     \* the dict offsets, in insertion order: Seq of [path, off]
  out,         \* what the poll just finished printed: Seq of [source, line, known]
  last,        \* per path, what the poll just finished did with it
  phase,       \* "idle" | "polled" | "crashed"
  from_start,  \* args.from_start
  recent_cap,  \* max(args.recent, 1)
  owedFrom,    \* history: per path, index of the first line the cursor owes
  appended,    \* history: per path, lines appended since the last poll
  events       \* history: number of events the logs have seen

fvars == <<files, offsets, out, last, phase, from_start, recent_cap,
           owedFrom, appended, events>>

VARIABLES
  prev_session_ids,    \* list of the ids of the last cycle that changed it
  prev_topology,       \* <<the last topology snapshot>>, <<>> (None) before
  next_heartbeat,      \* monotonic time at which the next heartbeat is due
  mono,                \* time.monotonic(), in ticks of 0.5 s
  hout,                \* what the cycle just finished printed
  hpc,                 \* "run" | "exit0" | "exit2"
  hcycle,              \* what the queries of the last cycle returned, its sleep
  once,                \* args.once
  poll_interval,       \* args.poll_interval, in ticks
  heartbeat_interval   \* args.heartbeat_interval, in ticks

hvars == <<prev_session_ids, prev_topology, next_heartbeat, mono, hout, hpc,
           hcycle, once, poll_interval, heartbeat_interval>>

VARIABLES
  repo,        \* the repository the topology tool is run against
  requested,   \* args.main_branch, a ref name or "auto"
  report,      \* what git_coordination.py ended with: exit status and JSON
  delivered,   \* the JSON report as load_topology reads it
  snapshot,    \* <<normalize_topology(delivered)>>, <<>> before
  gpc          \* "start" | "ran" | "loaded" | "raised"

gvars == <<repo, requested, report, delivered, snapshot, gpc>>

VARIABLES
  project_root,  \* args.project_root, a path as its sequence of components
  logs,          \* log -> [cwd, started, mtime, lines]
  wall,          \* datetime.now
  discovered,    \* what discover_sessions returned: Seq of logs
  inv_rows,      \* the rows command_inventory has built: Seq of [log, active]
  act_rows,      \* the rows of command_activity: Seq of [log, timestamp, summary]
  ipc            \* "idle" | "start" | "inventory" | "activity" | "done" | "crashed"

ivars == <<project_root, logs, wall, discovered, inv_rows, act_rows, ipc>>

vars == <<fvars, hvars, gvars, ivars>>

\* The topology tool has not printed a report.
NoPayload ==
  [base_ref |-> [pre |-> "", base |-> ""], repo_root_status |-> <<>>,
   branch_deltas |-> <<>>, worktrees |-> <<>>]

NoResult == [status |-> -1, why |-> "", payload |-> NoPayload]

NoRepo ==
  [heads |-> {}, remotes |-> {}, origin_head |-> "", current |-> "",
   counts |-> <<>>, root_changes |-> FALSE, worktrees |-> <<>>,
   git_ok |-> FALSE]

\* Neither command_inventory nor command_activity is part of the run.
InventoryNotStarted ==
  /\ project_root = <<>>
  /\ logs = <<>>
  /\ wall = 0
  /\ discovered = <<>>
  /\ inv_rows = <<>>
  /\ act_rows = <<>>
  /\ ipc = "idle"

\* git_coordination.py is not part of the run.
GitNotStarted ==
  /\ repo = NoRepo
  /\ requested = [pre |-> "", base |-> "auto"]
  /\ report = NoResult
  /\ delivered = NoPayload
  /\ snapshot = <<>>
  /\ gpc = "start"

RECURSIVE SumLen(_)
\* st_size: the bytes of a sequence of lines.
SumLen(lines) ==
  IF lines = <<>> THEN 0
  ELSE LineLen(Head(lines).kind) + SumLen(Tail(lines))

Size(p) == SumLen(files[p].lines)

\* Byte offset at which line i of lines starts.
StartOf(lines, i) == SumLen(SubSeq(lines, 1, i - 1))

Min(a, b) == IF a < b THEN a ELSE b

\* --------------------------------------------------- session discovery

RECURSIVE read_session_meta(_)
\* Scan forward to the first session_meta record.  A line that is not JSON is
\* skipped; obj.get on a line that is JSON but no object raises AttributeError,
\* which nothing catches.
read_session_meta(lines) ==
  IF lines = <<>> THEN "none"
  ELSE CASE Head(lines).kind = "meta" -> "found"
         [] Head(lines).kind = "nonobj" -> "raise"
         [] OTHER -> read_session_meta(Tail(lines))

\* open() of a file without read permission raises OSError: no record.
Discoverable(p) ==
  /\ files[p].exists
  /\ files[p].readable
  /\ read_session_meta(files[p].lines) = "found"

DiscoverRaises ==
  \E p \in Paths :
    /\ files[p].exists
    /\ files[p].readable
    /\ read_session_meta(files[p].lines) = "raise"

RECURSIVE SortByStartDesc(_)
SortByStartDesc(S) ==
  IF S = {} THEN <<>>
  ELSE LET p == CHOOSE x \in S : \A y \in S : StartedAt(y) <= StartedAt(x)
       IN <<p>> \o SortByStartDesc(S \ {p})

\* The records of the project's sessions, most recently started first.
discover_sessions == SortByStartDesc({p \in Paths : Discoverable(p)})

\* stat() of the log file: modified within the activity window.
is_active(p) == files[p].exists /\ files[p].active

\* ------------------------------------------------------ the offsets dict

Tracked(offs) == {offs[i].path : i \in 1..Len(offs)}

OffsetOf(offs, p) ==
  LET i == CHOOSE j \in 1..Len(offs) : offs[j].path = p IN offs[i].off

RECURSIVE CreateCursors(_, _)
\* First loop of a poll: a cursor for every active session that has none.
CreateCursors(sessions, offs) ==
  IF sessions = <<>> THEN offs
  ELSE LET p == Head(sessions)
           next == IF is_active(p) /\ p \notin Tracked(offs)
                   THEN Append(offs, [path |-> p,
                                      off |-> IF from_start THEN 0 ELSE Size(p)])
                   ELSE offs
       IN CreateCursors(Tail(sessions), next)

\* ----------------------------------------------------------- the read

\* json.loads of a whole line of a kind.
json_loads(kind) ==
  CASE kind = "bad" -> "JSONDecodeError"
    [] kind = "nonobj" -> "value"
    [] OTHER -> "dict"

\* summarize_event of a record: empty for a token_count event only.
summarize_event(kind) ==
  CASE kind = "tok" -> ""
    [] kind = "meta" -> "session start"
    [] OTHER -> "event"

\* What the loop body does with line i of lines when reading from byte off:
\* a line before off is not read; a line that off cuts is read as a fragment,
\* which is not JSON; obj.get on a value that is no dict raises AttributeError.
HandleLine(lines, i, off) ==
  LET start == StartOf(lines, i)
      kind == lines[i].kind
  IN IF start + LineLen(kind) <= off THEN "unread"
     ELSE IF start < off THEN "skip"
     ELSE CASE json_loads(kind) = "JSONDecodeError" -> "skip"
            [] json_loads(kind) = "value" -> "raise"
            [] summarize_event(kind) = "" -> "skip"
            [] OTHER -> "print"

\* Index of the line at which the read raises, 0 if it does not.
RaiseAt(lines, off) ==
  LET R == {i \in 1..Len(lines) : HandleLine(lines, i, off) = "raise"}
  IN IF R = {} THEN 0 ELSE CHOOSE i \in R : \A j \in R : i <= j

Printed(lines, off) ==
  LET r == RaiseAt(lines, off)
  IN {i \in 1..Len(lines) :
        HandleLine(lines, i, off) = "print" /\ (r = 0 \/ i < r)}

RECURSIVE Ascending(_)
Ascending(S) ==
  IF S = {} THEN <<>>
  ELSE LET m == CHOOSE x \in S : \A y \in S : x <= y
       IN <<m>> \o Ascending(S \ {m})

\* The position clipped to the end of the file.
TellClipped(off, size) == size

\* handle.tell() after reading to the end from off: a seek beyond the end of
\* the file is allowed, reads nothing and leaves the position where it is.
TellAfterRead(off, size) == IF off > size THEN off ELSE size

NoReport == [p \in Paths |-> [st |-> "none", from |-> 0]]

\* if not path.exists(): offsets.pop(path); continue
PopMissing(acc, e) ==
  [acc EXCEPT !.last[e.path] = [st |-> "gone", from |-> 0]]

\* No except clause: the OSError leaves the loop.
PopOnOSError_Escapes(acc, e) ==
  [acc EXCEPT !.offs = Append(@, e),
              !.raised = TRUE,
              !.last[e.path] = [st |-> "failed", from |-> 0]]

\* except OSError: offsets.pop(path)
PopOnOSError(acc, e) ==
  [acc EXCEPT !.last[e.path] = [st |-> "failed", from |-> 0]]

\* The with block: seek to the stored offset, handle every line to the end of
\* the file, store handle.tell().  An exception that is no OSError escapes
\* before the store, and leaves the loop and command_follow.
ReadFrom(acc, e, cache) ==
  LET p == e.path
      lines == acc.fl[p].lines
      printed == Printed(lines, e.off)
      P == Ascending(printed)
      prints == [i \in 1..Len(P) |->
                   [source |-> p, line |-> P[i], known |-> p \in cache]]
      counted == [i \in 1..Len(lines) |->
                    IF i \in printed
                    THEN [lines[i] EXCEPT !.emits = Min(2, @ + 1)]
                    ELSE lines[i]]
  IN IF RaiseAt(lines, e.off) # 0
       THEN [acc EXCEPT !.offs = Append(@, e),
                        !.out = @ \o prints,
                        !.fl[p].lines = counted,
                        !.raised = TRUE,
                        !.last[p] = [st |-> "raised", from |-> e.off]]
       ELSE [acc EXCEPT !.offs = Append(@, [path |-> p,
                                 off |-> TellAfterRead(e.off, SumLen(lines))]),
                        !.out = @ \o prints,
                        !.fl[p].lines = counted,
                        !.last[p] = [st |-> "read", from |-> e.off]]

RECURSIVE TailLoop(_, _, _)
\* Second loop of a poll, over list(offsets) in insertion order.  acc holds the
\* dict as rebuilt so far, the lines printed, whether an exception escaped, and
\* the files (whose lines count their own emissions).
TailLoop(todo, cache, acc) ==
  IF todo = <<>> THEN acc
  ELSE
    LET e == Head(todo)
        f == acc.fl[e.path]
        step ==
          IF acc.raised THEN [acc EXCEPT !.offs = Append(@, e)]
          ELSE IF ~f.exists THEN PopMissing(acc, e)
          ELSE IF ~f.readable THEN PopOnOSError(acc, e)
          ELSE ReadFrom(acc, e, cache)
    IN TailLoop(Tail(todo), cache, step)

\* discover_sessions(...)[:recent_cap]
RecentSessions ==
  SubSeq(discover_sessions, 1, Min(recent_cap, Len(discover_sessions)))

\* cache = {record.log_path: record for record in sessions}
Cache == {RecentSessions[i] : i \in 1..Len(RecentSessions)}

\* The offsets dict after the first loop of a poll.
Created == CreateCursors(RecentSessions, offsets)

StartAcc ==
  [offs |-> <<>>, out |-> <<>>, raised |-> FALSE, fl |-> files,
   last |-> NoReport]

\* One iteration of the while loop of command_follow.
PollResult == TailLoop(Created, Cache, StartAcc)

Poll ==
  /\ phase # "crashed"
  /\ IF DiscoverRaises
       THEN /\ phase' = "crashed"
            /\ out' = <<>>
            /\ last' = NoReport
            /\ UNCHANGED <<files, offsets, owedFrom>>
       ELSE LET res == PollResult
                created == Tracked(Created)
            IN /\ offsets' = res.offs
               /\ out' = res.out
               /\ files' = res.fl
               /\ last' = res.last
               /\ phase' = IF res.raised THEN "crashed" ELSE "polled"
               /\ owedFrom' =
                    [p \in Paths |->
                       IF owedFrom[p] < 0 /\ p \in created
                       THEN IF from_start THEN 0 ELSE Len(files[p].lines)
                       ELSE owedFrom[p]]
  /\ appended' = [p \in Paths |-> 0]
  /\ UNCHANGED <<from_start, recent_cap, events>>
  /\ UNCHANGED <<hvars, gvars, ivars>>

\* ---------------------------------------------- what happens to the logs

\* After an event the logs are no longer as the last poll saw them: out and
\* last describe the poll that has just finished, and nothing otherwise.
Idle ==
  /\ phase' = "idle"
  /\ out' = <<>>
  /\ last' = NoReport

\* A session appends one line to its log.
AppendLine(p, kind) ==
  /\ phase # "crashed"
  /\ events < MaxEvents
  /\ events' = events + 1
  /\ files[p].exists
  /\ files' = [files EXCEPT ![p].lines = Append(@, [kind |-> kind, emits |-> 0]),
                            ![p].active = TRUE]
  /\ appended' = [appended EXCEPT ![p] = IF @ < 0 THEN @ ELSE @ + 1]
  /\ Idle
  /\ UNCHANGED <<offsets, from_start, recent_cap, owedFrom>>
  /\ UNCHANGED <<hvars, gvars, ivars>>

\* The file is cut back to its first k lines.
Truncate(p, k) ==
  /\ phase # "crashed"
  /\ events < MaxEvents
  /\ events' = events + 1
  /\ files[p].exists
  /\ k < Len(files[p].lines)
  /\ files' = [files EXCEPT ![p].lines = SubSeq(@, 1, k), ![p].active = TRUE]
  /\ owedFrom' = [owedFrom EXCEPT ![p] = Min(@, k)]
  /\ appended' = [appended EXCEPT ![p] = -1]
  /\ Idle
  /\ UNCHANGED <<offsets, from_start, recent_cap>>
  /\ UNCHANGED <<hvars, gvars, ivars>>

\* The file is removed.
Vanish(p) ==
  /\ phase # "crashed"
  /\ events < MaxEvents
  /\ events' = events + 1
  /\ files[p].exists
  /\ files' = [files EXCEPT ![p] = NoFile]
  /\ owedFrom' = [owedFrom EXCEPT ![p] = Min(@, 0)]
  /\ appended' = [appended EXCEPT ![p] = -1]
  /\ Idle
  /\ UNCHANGED <<offsets, from_start, recent_cap>>
  /\ UNCHANGED <<hvars, gvars, ivars>>

\* A session starts a log at the path: its first line is the session_meta.
Reappear(p) ==
  /\ phase # "crashed"
  /\ events < MaxEvents
  /\ events' = events + 1
  /\ ~files[p].exists
  /\ files' = [files EXCEPT ![p] = [exists |-> TRUE, readable |-> TRUE,
                                    active |-> TRUE, lines |-> NewLog]]
  /\ Idle
  /\ UNCHANGED <<offsets, from_start, recent_cap, owedFrom,
                 appended>>
  /\ UNCHANGED <<hvars, gvars, ivars>>

\* The activity window passes without a write to the file.
Expire(p) ==
  /\ phase # "crashed"
  /\ events < MaxEvents
  /\ events' = events + 1
  /\ files[p].exists
  /\ files[p].active
  /\ files' = [files EXCEPT ![p].active = FALSE]
  /\ Idle
  /\ UNCHANGED <<offsets, from_start, recent_cap, owedFrom,
                 appended>>
  /\ UNCHANGED <<hvars, gvars, ivars>>

\* Read permission is taken away: open() raises OSError from now on.
Deny(p) ==
  /\ phase # "crashed"
  /\ events < MaxEvents
  /\ events' = events + 1
  /\ files[p].exists
  /\ files[p].readable
  /\ files' = [files EXCEPT ![p].readable = FALSE]
  /\ Idle
  /\ UNCHANGED <<offsets, from_start, recent_cap, owedFrom, appended>>
  /\ UNCHANGED <<hvars, gvars, ivars>>

\* Read permission is given back.
Grant(p) ==
  /\ phase # "crashed"
  /\ events < MaxEvents
  /\ events' = events + 1
  /\ files[p].exists
  /\ ~files[p].readable
  /\ files' = [files EXCEPT ![p].readable = TRUE]
  /\ Idle
  /\ UNCHANGED <<offsets, from_start, recent_cap, owedFrom,
                 appended>>
  /\ UNCHANGED <<hvars, gvars, ivars>>

\* ------------------------------------------------------- specification

NoOutput ==
  [error |-> FALSE, deltas |-> <<>>, details |-> <<>>, git |-> FALSE,
   heartbeat |-> FALSE]

\* No cycle has run.
NoCycle ==
  [sessions |-> "none", topology |-> "none", session_ids |-> <<>>, slept |-> 0]

\* The heartbeat monitor is not part of the run.
MonitorNotStarted ==
  /\ prev_session_ids = <<>>
  /\ prev_topology = <<>>
  /\ hcycle = NoCycle
  /\ next_heartbeat = 0
  /\ mono = 0
  /\ hout = NoOutput
  /\ hpc = "run"
  /\ once = FALSE
  /\ poll_interval = 0
  /\ heartbeat_interval = 0

\* command_follow starts with an empty offsets dict.
InitFollow ==
  /\ files \in [Paths -> InitFiles]
  /\ offsets = <<>>
  /\ out = <<>>
  /\ last = NoReport
  /\ phase = "idle"
  /\ from_start \in BOOLEAN
  /\ recent_cap \in {1, 2}
  /\ owedFrom = [p \in Paths |-> -1]
  /\ appended = [p \in Paths |-> 0]
  /\ events = 0
  /\ MonitorNotStarted
  /\ GitNotStarted
  /\ InventoryNotStarted

NextFollow ==
  \/ Poll
  \/ \E p \in Paths, kind \in AppendKinds : AppendLine(p, kind)
  \/ \E p \in Paths, k \in 0..MaxEvents : Truncate(p, k)
  \/ \E p \in Paths : Vanish(p)
  \/ \E p \in Paths : Reappear(p)
  \/ \E p \in Paths : Expire(p)
  \/ \E p \in Paths : Deny(p)
  \/ \E p \in Paths : Grant(p)

SpecFollow == InitFollow /\ [][NextFollow]_vars


\* ================================================= git_coordination.py

\* The candidates tried in the opposite order.
DEFAULT_MAIN_CANDIDATES_Reversed == <<"trunk", "master", "main">>

DEFAULT_MAIN_CANDIDATES == <<"main", "master", "trunk">>

\* A ref name is kept as the prefix the code looks at and the rest:
\* "origin/main" is Ref("origin/", "main"), "main" is Ref("", "main").
Ref(pre, base) == [pre |-> pre, base |-> base]

Auto == Ref("", "auto")

\* Position of a name in the order of Python's str comparison.
NameRank(n) ==
  CASE n = "(detached)" -> 0
    [] n = "dev" -> 1
    [] n = "feat" -> 2
    [] n = "main" -> 3
    [] n = "master" -> 4
    [] n = "trunk" -> 5

\* The stdout of one "git rev-list --left-right --count": rc the exit status,
\* tokens the number of whitespace-separated words, ints whether the words
\* are integers.
Counts(a, b) == [rc |-> 0, tokens |-> 2, ints |-> TRUE, ahead |-> a, behind |-> b]

Malformed(n, i) == [rc |-> 0, tokens |-> n, ints |-> i, ahead |-> 0, behind |-> 0]

QueryFails == [rc |-> 128, tokens |-> 0, ints |-> TRUE, ahead |-> 0, behind |-> 0]

\* git rev-parse --verify --quiet ref
ref_exists(r, ref) ==
  CASE ref.pre = "" -> ref.base \in r.heads
    [] ref.pre = "refs/heads/" -> ref.base \in r.heads
    [] ref.pre = "origin/" -> ref.base \in r.remotes
    [] OTHER -> FALSE

RECURSIVE SortNames(_)
\* sorted() of a set of names.
SortNames(S) ==
  IF S = {} THEN <<>>
  ELSE LET m == CHOOSE x \in S : \A y \in S : NameRank(x) <= NameRank(y)
       IN <<m>> \o SortNames(S \ {m})

list_local_branches(r) == SortNames(r.heads)

normalize_base_branch_name(base_ref) ==
  IF base_ref.pre = "origin/" THEN Ref("", base_ref.base) ELSE base_ref

\* The first element of seq that is in S, as <<element>>, or <<>>.
FirstIn(seq, S) ==
  LET hits == SelectSeq(seq, LAMBDA c : c \in S)
  IN IF hits = <<>> THEN <<>> ELSE <<Head(hits)>>

Resolved(ref) == [ok |-> TRUE, ref |-> ref]

Unresolved == [ok |-> FALSE, ref |-> Ref("", "")]

detect_base_ref(r) ==
  LET local == FirstIn(DEFAULT_MAIN_CANDIDATES, r.heads)
      remote == FirstIn(DEFAULT_MAIN_CANDIDATES,
                        {DEFAULT_MAIN_CANDIDATES[i] :
                           i \in {j \in 1..Len(DEFAULT_MAIN_CANDIDATES) :
                                    ref_exists(r, Ref("origin/",
                                               DEFAULT_MAIN_CANDIDATES[j]))}})
  IN IF local # <<>> THEN Resolved(Ref("", local[1]))
     ELSE IF remote # <<>> THEN Resolved(Ref("origin/", remote[1]))
     ELSE IF r.origin_head # "" /\ ref_exists(r, Ref("origin/", r.origin_head))
       THEN Resolved(Ref("origin/", r.origin_head))
     ELSE IF r.current # "" /\ r.current # "HEAD"
       THEN Resolved(Ref("", r.current))
     ELSE Unresolved

choose_base_ref(r, req) ==
  IF req # Ref("", "") /\ req # Auto
    THEN IF ref_exists(r, req) THEN Resolved(req)
         ELSE IF ref_exists(r, Ref("origin/" \o req.pre, req.base))
           THEN Resolved(Ref("origin/" \o req.pre, req.base))
         ELSE Unresolved
    ELSE detect_base_ref(r)

\* d sorts before e under key (behind_base, ahead_of_base, branch), reversed.
SortsBefore(d, e) ==
  \/ d.behind_base > e.behind_base
  \/ /\ d.behind_base = e.behind_base
     /\ \/ d.ahead_of_base > e.ahead_of_base
        \/ /\ d.ahead_of_base = e.ahead_of_base
           /\ NameRank(d.branch) >= NameRank(e.branch)

RECURSIVE InsertDelta(_, _)
InsertDelta(sorted, d) ==
  IF sorted = <<>> THEN <<d>>
  ELSE IF SortsBefore(Head(sorted), d)
    THEN <<Head(sorted)>> \o InsertDelta(Tail(sorted), d)
    ELSE <<d>> \o sorted

RECURSIVE SortDeltas(_)
SortDeltas(ds) ==
  IF ds = <<>> THEN <<>>
  ELSE InsertDelta(SortDeltas(SubSeq(ds, 1, Len(ds) - 1)), ds[Len(ds)])

RECURSIVE CountLoop(_, _, _, _)
\* The for loop of branch_deltas: run_git raises RuntimeError when git exits
\* non-zero, int() raises ValueError on a word that is no integer.
CountLoop(r, base_ref, todo, acc) ==
  IF todo = <<>> \/ acc.raised # "" THEN acc
  ELSE LET branch == Head(todo)
           stdout == r.counts[branch]
           next ==
             IF Ref("", branch) = normalize_base_branch_name(base_ref) THEN acc
             ELSE IF stdout.rc # 0 THEN [acc EXCEPT !.raised = "RuntimeError"]
             ELSE IF stdout.tokens # 2 THEN acc
             ELSE IF ~stdout.ints THEN [acc EXCEPT !.raised = "ValueError"]
             ELSE [acc EXCEPT !.deltas =
                     Append(@, [branch |-> branch,
                                ahead_of_base |-> stdout.ahead,
                                behind_base |-> stdout.behind])]
       IN CountLoop(r, base_ref, Tail(todo), next)

branch_deltas(r, base_ref) ==
  LET res == CountLoop(r, base_ref, list_local_branches(r),
                       [raised |-> "", deltas |-> <<>>])
  IN [res EXCEPT !.deltas = SortDeltas(@)]

\* A table without the stale category.
categorize_branch_NoStale(delta) ==
  IF delta.ahead_of_base > 0 /\ delta.behind_base > 0
    THEN "diverged: rebase before merge"
  ELSE IF delta.ahead_of_base > 0 /\ delta.behind_base = 0
    THEN "ahead only: candidate to merge"
  ELSE "in sync with base"

categorize_branch(delta) ==
  IF delta.ahead_of_base = 0 /\ delta.behind_base > 0
    THEN "stale: rebase before new work"
  ELSE IF delta.ahead_of_base > 0 /\ delta.behind_base > 0
    THEN "diverged: rebase before merge"
  ELSE IF delta.ahead_of_base > 0 /\ delta.behind_base = 0
    THEN "ahead only: candidate to merge"
  ELSE "in sync with base"

\* git status -sb: the branch line, and a line when there are local changes.
StatusLines(r) ==
  IF r.root_changes THEN <<"## branch", " M file">> ELSE <<"## branch">>

\* The JSON payload of the report.
as_json(base_ref, repo_status, deltas, worktrees) ==
  [base_ref |-> base_ref,
   repo_root_status |-> repo_status,
   branch_deltas |-> [i \in 1..Len(deltas) |->
                        [branch |-> deltas[i].branch,
                         ahead_of_base |-> deltas[i].ahead_of_base,
                         behind_base |-> deltas[i].behind_base,
                         category |-> categorize_branch(deltas[i])]],
   worktrees |-> worktrees]

Exit(status, why, payload) == [status |-> status, why |-> why, payload |-> payload]

\* main of git_coordination.py with --json: a RuntimeError ends it with
\* status 2, any other exception with a traceback and status 1.
git_coordination_main(r, req) ==
  IF ~r.git_ok THEN Exit(2, "git", NoPayload)
  ELSE LET base == choose_base_ref(r, req)
           d == branch_deltas(r, base.ref)
       IN IF ~base.ok THEN Exit(2, "resolution", NoPayload)
          ELSE IF d.raised = "RuntimeError" THEN Exit(2, "git", NoPayload)
          ELSE IF d.raised = "ValueError" THEN Exit(1, "traceback", NoPayload)
          ELSE Exit(0, "", as_json(base.ref, StatusLines(r), d.deltas,
                                   r.worktrees))

\* ================================================= heartbeat_monitor.py

\* sorted(): the elements of seq in the order of their keys, keys[i] the
\* pair of numbers seq[i] compares by; equal elements keep their order.
SortedBy(seq, keys) ==
  LET n == Len(seq)
      before(i, j) == \/ keys[i][1] < keys[j][1]
                      \/ keys[i][1] = keys[j][1] /\ keys[i][2] < keys[j][2]
      rank(i) == 1 + Cardinality({j \in 1..n :
                                   before(j, i) \/ (j < i /\ ~before(i, j))})
  IN [k \in 1..n |-> seq[CHOOSE i \in 1..n : rank(i) = k]]

\* f"{branch}@{path}" of a worktree row, and what such strings compare by.
Descriptor(row) == [branch |-> row.branch, path |-> row.path]

DescriptorKey(row) == <<NameRank(row.branch), row.path>>

\* A snapshot that keeps the diverged branches in the order of the report.
normalize_topology_ReportOrder(raw) ==
  LET status_lines == SelectSeq(raw.repo_root_status, LAMBDA l : l # "")
      dirty == SelectSeq(raw.worktrees, LAMBDA w : w.dirty)
      prunable == SelectSeq(raw.worktrees, LAMBDA w : w.prunable)
      both == SelectSeq(raw.branch_deltas,
                        LAMBDA d : d.ahead_of_base > 0 /\ d.behind_base > 0)
  IN [base_ref |-> raw.base_ref,
      root_dirty |-> Len(status_lines) > 1,
      dirty_worktrees |->
        SortedBy([i \in 1..Len(dirty) |-> Descriptor(dirty[i])],
                 [i \in 1..Len(dirty) |-> DescriptorKey(dirty[i])]),
      prunable_worktrees |->
        SortedBy([i \in 1..Len(prunable) |-> prunable[i].path],
                 [i \in 1..Len(prunable) |-> <<prunable[i].path, 0>>]),
      diverged |-> [i \in 1..Len(both) |-> both[i].branch]]

normalize_topology(raw) ==
  LET status_lines == SelectSeq(raw.repo_root_status, LAMBDA l : l # "")
      dirty == SelectSeq(raw.worktrees, LAMBDA w : w.dirty)
      prunable == SelectSeq(raw.worktrees, LAMBDA w : w.prunable)
      both == SelectSeq(raw.branch_deltas,
                        LAMBDA d : d.ahead_of_base > 0 /\ d.behind_base > 0)
  IN [base_ref |-> raw.base_ref,
      root_dirty |-> Len(status_lines) > 1,
      dirty_worktrees |->
        SortedBy([i \in 1..Len(dirty) |-> Descriptor(dirty[i])],
                 [i \in 1..Len(dirty) |-> DescriptorKey(dirty[i])]),
      prunable_worktrees |->
        SortedBy([i \in 1..Len(prunable) |-> prunable[i].path],
                 [i \in 1..Len(prunable) |-> <<prunable[i].path, 0>>]),
      diverged |->
        SortedBy([i \in 1..Len(both) |-> both[i].branch],
                 [i \in 1..Len(both) |-> <<NameRank(both[i].branch), 0>>])]

\* load_topology: run_json raises when the tool exits non-zero.
load_topology(run) ==
  IF run.status # 0
    THEN [raised |-> TRUE, why |-> run.why, snap |-> normalize_topology(NoPayload)]
    ELSE [raised |-> FALSE, why |-> "", snap |-> normalize_topology(run.payload)]

\* Session ids are numbered in their lexicographic order.
SessionIds == 1..(FreeIds + BlockSize)

BlockIds == (FreeIds + 1)..(FreeIds + BlockSize)

\* The start timestamp of a session: later ids started later, two by two at
\* the same time.
StartedAtOf(sid) == (sid + 1) \div 2

DetailCap == 8

RECURSIVE Descending(_)
Descending(S) ==
  IF S = {} THEN <<>>
  ELSE LET m == CHOOSE x \in S : \A y \in S : y <= x
       IN <<m>> \o Descending(S \ {m})

RECURSIVE InsertDesc(_, _)
\* Insert row r after every row that started at the same time or later.
InsertDesc(sorted, r) ==
  IF sorted = <<>> THEN <<r>>
  ELSE IF Head(sorted).started_at >= r.started_at
    THEN <<Head(sorted)>> \o InsertDesc(Tail(sorted), r)
    ELSE <<r>> \o sorted

RECURSIVE StableSortDesc(_)
\* list.sort(key=started_at, reverse=True): rows that started at the same
\* time keep their order.
StableSortDesc(rows) ==
  IF rows = <<>> THEN <<>>
  ELSE InsertDesc(StableSortDesc(SubSeq(rows, 1, Len(rows) - 1)),
                  rows[Len(rows)])

\* The "recent" rows of the inventory command for the sessions in known, of
\* which those in activeIds are active.  Sessions that started at the same
\* time come in the order the log files were enumerated (ascending ids, or
\* descending with rev); with dup the log of the first active session exists
\* in both partitions and is reported twice.
Inventory(known, activeIds, dup, rev) ==
  LET order == IF rev THEN Descending(known) ELSE Ascending(known)
      row(sid) == [session_id |-> sid, started_at |-> StartedAtOf(sid),
                   active |-> sid \in activeIds]
      rows == [i \in 1..Len(order) |-> row(order[i])]
      first == CHOOSE x \in activeIds : \A y \in activeIds : x <= y
      all == IF dup /\ activeIds # {} THEN rows \o <<row(first)>> ELSE rows
  IN StableSortDesc(all)

\* load_active_sessions: the active rows, most recently started first.
load_active_sessions(rows) ==
  StableSortDesc(SelectSeq(rows, LAMBDA r : r.active))

Range(seq) == {seq[i] : i \in 1..Len(seq)}

\* added[:8]
FirstN(seq, n) == SubSeq(seq, 1, Min(n, Len(seq)))

\* A delta computed without the set differences: every current id reported
\* as added, every previous id as removed.
emit_session_delta_NoDifference(prev_ids, cur_ids, active) ==
  LET added == Ascending(Range(cur_ids))
      removed == Ascending(Range(prev_ids))
      shown == FirstN(added, DetailCap)
      item(sid) == CHOOSE a \in Range(active) : a.session_id = sid
  IN [deltas |-> <<[total |-> Len(cur_ids), added |-> added,
                    removed |-> removed]>>,
      details |-> [i \in 1..Len(shown) |->
                     [session_id |-> shown[i],
                      started_at |-> item(shown[i]).started_at]]]

\* emit_session_delta: the delta.sessions record, then a detail line for each
\* of the first 8 added ids.
emit_session_delta(prev_ids, cur_ids, active) ==
  LET prev == Range(prev_ids)
      cur == Range(cur_ids)
      added == Ascending(cur \ prev)
      removed == Ascending(prev \ cur)
      shown == FirstN(added, DetailCap)
      item(sid) == CHOOSE a \in Range(active) : a.session_id = sid
  IN [deltas |-> <<[total |-> Len(cur_ids), added |-> added,
                    removed |-> removed]>>,
      details |-> [i \in 1..Len(shown) |->
                     [session_id |-> shown[i],
                      started_at |-> item(shown[i]).started_at]]]

SleepFloor == 1

HeartbeatFloor == 2

Max(a, b) == IF a > b THEN a ELSE b

\* A comparison that takes the first snapshot for no change.
TopologyChanged_AfterFirst(prev, topology) ==
  prev # <<>> /\ prev # <<topology>>

\* prev_topology != topology
TopologyChanged(prev, topology) == prev # <<topology>>

\* now_mono >= next_heartbeat
HeartbeatDue(now_mono, due) == now_mono >= due

\* A heartbeat on the poll timer.
NextDue_PollTimer(now_mono) == now_mono + Max(poll_interval, SleepFloor)

\* now_mono + max(args.heartbeat_interval, 1.0)
NextDue(now_mono) == now_mono + Max(heartbeat_interval, HeartbeatFloor)

\* The sleep that ends a cycle that took work ticks.
SleepFor(failed, work) ==
  IF failed THEN Max(poll_interval, SleepFloor)
  ELSE Max(poll_interval - work, SleepFloor)

\* A monitor that a failed cycle ends, and a single shot that goes on.
AfterFailure_Fatal == "exit2"

AfterSuccess_Loops == "run"

\* A failed cycle that remembers what it gathered.
KeptOnFailure_Gathered(prev, cur) == cur

\* What a failed cycle remembers of the values prev it had and the values
\* cur it gathered.
KeptOnFailure(prev, cur) == prev

\* Where main goes after a failed and after a successful cycle.
AfterFailure == IF once THEN "exit2" ELSE "run"

AfterSuccess == IF once THEN "exit0" ELSE "run"

\* One iteration of the while loop of main.  inv is what the session monitor
\* reports (not ok: the query raises) and topo what load_topology returns or
\* raises; work is the time the queries take.  load_topology is not called
\* when load_active_sessions has raised.
Cycle(inv, topo, work) ==
  /\ hpc = "run"
  /\ LET failed == ~inv.ok \/ topo.raised
         now_mono == mono + work
         active == load_active_sessions(inv.rows)
         session_ids == [i \in 1..Len(active) |-> active[i].session_id]
         changed == session_ids # prev_session_ids
         delta == emit_session_delta(prev_session_ids, session_ids, active)
         beat == HeartbeatDue(now_mono, next_heartbeat)
         exits == (IF failed THEN AfterFailure ELSE AfterSuccess) # "run"
         sleep == IF exits THEN 0 ELSE SleepFor(failed, work)
     IN /\ now_mono + sleep <= MaxClock
        /\ mono' = now_mono + sleep
        /\ hcycle' = [sessions |-> IF inv.ok THEN "ok" ELSE "failed",
                      topology |-> IF ~inv.ok THEN "skipped"
                                   ELSE IF topo.raised THEN topo.why ELSE "ok",
                      session_ids |-> IF inv.ok THEN session_ids ELSE <<>>,
                      slept |-> sleep]
        /\ IF failed
             THEN /\ hout' = [NoOutput EXCEPT !.error = TRUE]
                  /\ hpc' = AfterFailure
                  /\ prev_session_ids' =
                       KeptOnFailure(prev_session_ids, session_ids)
                  /\ UNCHANGED <<prev_topology, next_heartbeat>>
             ELSE /\ hout' = [error |-> FALSE,
                              deltas |-> IF changed THEN delta.deltas ELSE <<>>,
                              details |-> IF changed THEN delta.details ELSE <<>>,
                              git |-> TopologyChanged(prev_topology, topo.snap),
                              heartbeat |-> beat]
                  /\ prev_session_ids' = IF changed THEN session_ids
                                         ELSE prev_session_ids
                  /\ prev_topology' = <<topo.snap>>
                  /\ next_heartbeat' =
                       IF beat THEN NextDue(now_mono) ELSE next_heartbeat
                  /\ hpc' = AfterSuccess
  /\ UNCHANGED <<once, poll_interval, heartbeat_interval>>
  /\ UNCHANGED <<fvars, gvars, ivars>>

\* command_follow is not part of a run of the heartbeat monitor.
FollowNotStarted ==
  /\ files = [p \in Paths |-> NoFile]
  /\ offsets = <<>>
  /\ out = <<>>
  /\ last = NoReport
  /\ phase = "idle"
  /\ from_start = FALSE
  /\ recent_cap = 1
  /\ owedFrom = [p \in Paths |-> -1]
  /\ appended = [p \in Paths |-> 0]
  /\ events = 0

\* The state of main before its loop, the intervals left open.
MonitorStarts ==
  /\ prev_session_ids = <<>>
  /\ prev_topology = <<>>
  /\ next_heartbeat = 0
  /\ mono = 0
  /\ hout = NoOutput
  /\ hpc = "run"
  /\ hcycle = NoCycle
  /\ once \in BOOLEAN
  /\ FollowNotStarted
  /\ GitNotStarted
  /\ InventoryNotStarted

InitMonitor ==
  /\ MonitorStarts
  /\ poll_interval = 2
  /\ heartbeat_interval = 4

\* The inventories of a run: every free session is known, and active or not;
\* the block of subagents is there, all active, or is not.
Inventories ==
  {Inventory((1..FreeIds) \cup (IF blk THEN BlockIds ELSE {}),
             A \cup (IF blk THEN BlockIds ELSE {}), v = "dup", v = "rev") :
     A \in SUBSET (1..FreeIds), blk \in BOOLEAN, v \in {"plain", "dup", "rev"}}

\* A repository with branches main and feat, feat diverged or not.
RepoWith(featCounts, ok) ==
  [heads |-> {"feat", "main"}, remotes |-> {"main"}, origin_head |-> "main",
   current |-> "main",
   counts |-> [b \in {"feat", "main"} |->
                 IF b = "feat" THEN featCounts ELSE Counts(0, 0)],
   root_changes |-> FALSE,
   worktrees |-> <<[path |-> 1, branch |-> "main", detached |-> FALSE,
                    prunable |-> FALSE, dirty |-> FALSE]>>,
   git_ok |-> ok]

\* What load_topology gives for a repository in order, and when git fails.
SessionTopologies ==
  {load_topology(git_coordination_main(RepoWith(Counts(1, 0), ok), Auto)) :
     ok \in BOOLEAN}

NextSessions ==
  \E rows \in Inventories, ok \in BOOLEAN, topo \in SessionTopologies :
    Cycle([ok |-> ok, rows |-> IF ok THEN rows ELSE <<>>], topo, 0)

SpecSessions == InitMonitor /\ [][NextSessions]_vars

\* Both timers free: the poll delay is 1 or 2 ticks, the heartbeat is due
\* every 2 or 4 ticks.
InitTimers ==
  /\ MonitorStarts
  /\ poll_interval \in {0, 2}
  /\ heartbeat_interval \in {1, 4}

\* Inventories with the active sessions {1,2}, {2,3} and none.
TimerInventories ==
  {Inventory(1..FreeIds, A, FALSE, FALSE) : A \in {{1, 2}, {2, 3}, {}}}

\* Topologies: feat ahead, feat diverged, the base ref not resolved, git
\* failing.
TimerTopologies ==
  {load_topology(git_coordination_main(RepoWith(Counts(1, 0), TRUE), Auto)),
   load_topology(git_coordination_main(RepoWith(Counts(1, 1), TRUE), Auto)),
   load_topology(git_coordination_main(RepoWith(Counts(1, 0), TRUE),
                                       Ref("", "nope"))),
   load_topology(git_coordination_main(RepoWith(Counts(1, 0), FALSE), Auto))}

NextTimers ==
  \E rows \in TimerInventories, ok \in BOOLEAN, topo \in TimerTopologies,
     work \in {0, 1} :
    Cycle([ok |-> ok, rows |-> IF ok THEN rows ELSE <<>>], topo, work)

SpecTimers == InitTimers /\ [][NextTimers]_vars

\* ---------------------------------------- the runs of the topology tool

LocalNames == {"feat", "main", "master", "trunk"}

\* What a count query can print: two counts, no word, one word, three words,
\* two words that are no integers; or git exits non-zero.
Outputs ==
  {Counts(a, b) : a \in 0..MaxCount, b \in 0..MaxCount}
    \cup {Malformed(0, TRUE), Malformed(1, TRUE), Malformed(3, TRUE),
          Malformed(2, FALSE), QueryFails}

Worktree(path, branch, detached, prunable, dirty) ==
  [path |-> path, branch |-> branch, detached |-> detached,
   prunable |-> prunable, dirty |-> dirty]

\* git worktree list: the root worktree first, then the linked ones.
WorktreeLists(root_changes) ==
  LET root == Worktree(1, "main", FALSE, FALSE, root_changes)
  IN {<<root>>,
      <<root, Worktree(2, "feat", FALSE, FALSE, TRUE)>>,
      <<root, Worktree(3, "(detached)", TRUE, TRUE, FALSE),
        Worktree(2, "feat", FALSE, TRUE, TRUE)>>}

\* Repositories that differ in what a base ref can resolve to.
ResolutionRepos ==
  {[heads |-> h, remotes |-> rm, origin_head |-> o, current |-> c,
    counts |-> [b \in h |-> Counts(0, 0)], root_changes |-> FALSE,
    worktrees |-> <<Worktree(1, c, c = "HEAD", FALSE, FALSE)>>,
    git_ok |-> TRUE] :
     h \in SUBSET LocalNames, rm \in SUBSET {"main", "trunk", "dev"},
     o \in {"", "dev"}, c \in LocalNames \cup {"HEAD"}}

ResolutionRequests ==
  {Auto, Ref("", "main"), Ref("", "dev"), Ref("origin/", "main"),
   Ref("refs/heads/", "main"), Ref("", "nope")}

\* Repositories that differ in the counts of their branches and in their
\* worktrees.
DeltaRepos ==
  {[heads |-> {"feat", "main", "trunk"}, remotes |-> {"main"},
    origin_head |-> "main", current |-> "main",
    counts |-> [b \in {"feat", "main", "trunk"} |->
                  IF b = "feat" THEN f ELSE IF b = "trunk" THEN t
                  ELSE Counts(0, 0)],
    root_changes |-> ch, worktrees |-> w, git_ok |-> TRUE] :
     f \in Outputs, t \in {Counts(1, 1), Counts(0, 1), Malformed(0, TRUE)},
     ch \in BOOLEAN, w \in WorktreeLists(TRUE) \cup WorktreeLists(FALSE)}

DeltaRequests == {Auto, Ref("origin/", "main"), Ref("refs/heads/", "main")}

Runs ==
  (ResolutionRepos \X ResolutionRequests) \cup (DeltaRepos \X DeltaRequests)
    \cup {<<RepoWith(Counts(1, 0), FALSE), Auto>>}

\* The permutations of 1..n.
Perms(n) == {f \in [1..n -> 1..n] : \A i, j \in 1..n : f[i] = f[j] => i = j}

Permuted(seq, f) == [i \in 1..Len(seq) |-> seq[f[i]]]

InitGit ==
  /\ \E run \in Runs :
       /\ repo = run[1]
       /\ requested = run[2]
       /\ run[1].root_changes = run[1].worktrees[1].dirty
       /\ run[1].current \in run[1].heads \cup {"HEAD"}
  /\ report = NoResult
  /\ delivered = NoPayload
  /\ snapshot = <<>>
  /\ gpc = "start"
  /\ FollowNotStarted
  /\ MonitorNotStarted
  /\ InventoryNotStarted

\* One run of git_coordination.py --json.
Analyze ==
  /\ gpc = "start"
  /\ report' = git_coordination_main(repo, requested)
  /\ gpc' = "ran"
  /\ UNCHANGED <<repo, requested, delivered, snapshot>>
  /\ UNCHANGED <<fvars, hvars, ivars>>

\* load_topology of the report, its worktrees and branch deltas listed in any
\* order.
LoadTopology ==
  /\ gpc = "ran"
  /\ \E pd \in Perms(Len(report.payload.branch_deltas)),
        pw \in Perms(Len(report.payload.worktrees)) :
       LET raw == [report.payload EXCEPT
                     !.branch_deltas = Permuted(@, pd),
                     !.worktrees = Permuted(@, pw)]
           res == load_topology([report EXCEPT !.payload = raw])
       IN /\ delivered' = raw
          /\ snapshot' = IF res.raised THEN <<>> ELSE <<res.snap>>
          /\ gpc' = IF res.raised THEN "raised" ELSE "loaded"
  /\ UNCHANGED <<repo, requested, report>>
  /\ UNCHANGED <<fvars, hvars, ivars>>

NextGit == Analyze \/ LoadTopology

SpecGit == InitGit /\ [][NextGit]_vars

\* ------------------------- session_monitor.py: inventory and activity

\* A path is the sequence of its components below "/".  /x/ln is a symbolic
\* link to /x/proj.
RECURSIVE realpath(_)
realpath(path) ==
  IF path = <<>> THEN <<>>
  ELSE LET front == realpath(SubSeq(path, 1, Len(path) - 1))
           c == path[Len(path)]
       IN CASE c = "." -> front
            [] c = ".." -> IF front = <<>> THEN <<>>
                           ELSE SubSeq(front, 1, Len(front) - 1)
            [] c = "ln" /\ front = <<"x">> -> <<"x", "proj">>
            [] OTHER -> Append(front, c)

\* os.path.commonpath of two absolute paths: their longest common sequence
\* of leading components.
RECURSIVE commonpath(_, _)
commonpath(p, q) ==
  IF p = <<>> \/ q = <<>> \/ Head(p) # Head(q) THEN <<>>
  ELSE <<Head(p)>> \o commonpath(Tail(p), Tail(q))

\* str.startswith on the component names of the model.
StartsWith(a, b) == a = b \/ (a = "proj2" /\ b = "proj")

\* Containment decided on the text of the two paths.
is_within_root_StartsWith(root, path) ==
  LET r == realpath(root)
      c == realpath(path)
  IN /\ Len(r) <= Len(c)
     /\ \A i \in 1..Len(r) :
          IF i < Len(r) THEN c[i] = r[i] ELSE StartsWith(c[i], r[i])

is_within_root(root, path) ==
  LET resolved_root == realpath(root)
      resolved_path == realpath(path)
  IN commonpath(resolved_root, resolved_path) = resolved_root

LogIds == {"a", "b"}

\* discover_sessions over the logs ls: the logs with a session_meta record
\* and a working directory within root, most recently started first.
RECURSIVE NewestFirst(_, _)
NewestFirst(ls, S) ==
  IF S = {} THEN <<>>
  ELSE LET l == CHOOSE x \in S : \A y \in S : ls[y].started <= ls[x].started
       IN <<l>> \o NewestFirst(ls, S \ {l})

discover_within(root, ls) ==
  NewestFirst(ls, {l \in LogIds :
                     /\ read_session_meta(ls[l].lines) = "found"
                     /\ is_within_root(root, ls[l].cwd)})

\* args.active_minutes, the activity window in ticks of the wall clock.
ActiveMinutes == 1

\* is_active of a log modified at time modified when the clock reads now.
is_active_at(modified, now, minutes) == modified >= now - minutes

\* The loop of last_activity from line i on.  A timestamp of 0 is a record
\* without a timestamp, whose str(obj.get("timestamp", "")) is empty.
RECURSIVE LastActivityLoop(_, _, _, _)
LastActivityLoop(lines, i, last_ts, last_summary) ==
  IF i > Len(lines)
    THEN [raised |-> FALSE, timestamp |-> last_ts, summary |-> last_summary]
  ELSE LET kind == lines[i].kind
       IN CASE json_loads(kind) = "JSONDecodeError" ->
                 LastActivityLoop(lines, i + 1, last_ts, last_summary)
            [] json_loads(kind) = "value" ->
                 [raised |-> TRUE, timestamp |-> 0, summary |-> ""]
            [] summarize_event(kind) = "" ->
                 LastActivityLoop(lines, i + 1, last_ts, last_summary)
            [] OTHER ->
                 LastActivityLoop(lines, i + 1,
                                  IF lines[i].ts # 0 THEN lines[i].ts
                                  ELSE last_ts,
                                  summarize_event(kind))

last_activity(lines) == LastActivityLoop(lines, 1, 0, "")

\* A log holding only its session_meta record.
FreshLog(cwd, started, mtime) ==
  [cwd |-> cwd, started |-> started, mtime |-> mtime,
   lines |-> <<[kind |-> "meta", ts |-> started]>>]

\* Working directories and project roots: /x/proj, below it, beside it with
\* a name that starts with its name, above it, and spellings that are not
\* canonical.
Cwds ==
  {<<"x", "proj">>, <<"x", "proj", "sub">>, <<"x", "proj2", "sub">>,
   <<"x", "proj2">>, <<"x">>, <<"y", "proj">>, <<"x", "ln", "sub">>,
   <<"x", "proj2", "..", "proj">>, <<"x", "proj", "sub", "..", "..">>}

Roots == {<<"x", "proj">>, <<"x", "ln">>, <<"x", "proj", ".">>, <<"x">>, <<>>}

\* Runs that differ in where the sessions work.
ContainmentRuns ==
  {[project_root |-> r,
    logs |-> [l \in LogIds |->
                FreshLog(IF l = "a" THEN ca ELSE cb,
                         IF l = "a" THEN 1 ELSE 2, 0)]] :
     r \in Roots, ca \in Cwds, cb \in Cwds}

\* Runs that differ in when the logs were last modified.
ClockRuns ==
  {[project_root |-> <<"x", "proj">>,
    logs |-> [l \in LogIds |->
                FreshLog(<<"x", "proj">>, IF l = "a" THEN 1 ELSE 2,
                         IF l = "a" THEN ma ELSE mb)]] :
     ma \in 0..ActiveMinutes, mb \in 0..ActiveMinutes}

\* The logs of at most MaxLines lines: a session_meta record, then lines of
\* any kind, each record with its own timestamp or with none.
LineSeqs ==
  UNION {{<<[kind |-> "meta", ts |-> t]>> \o
            [i \in 1..n |-> [kind |-> f[i][1],
                              ts |-> IF f[i][2] = 1 THEN i + 1 ELSE 0]] :
            f \in [1..n -> AppendKinds \X {0, 1}], t \in {0, 1}} :
         n \in 0..(MaxLines - 1)}

\* Runs that differ in what log a holds.
ActivityRuns ==
  {[project_root |-> <<"x", "proj">>,
    logs |-> [l \in LogIds |->
                IF l = "a"
                  THEN [FreshLog(<<"x", "proj">>, 1, 0) EXCEPT !.lines = ls]
                  ELSE FreshLog(<<"x", "proj">>, 2, 0)]] :
     ls \in LineSeqs}

InitInventory ==
  /\ \E run \in ContainmentRuns \cup ClockRuns \cup ActivityRuns :
       /\ project_root = run.project_root
       /\ logs = run.logs
  /\ wall = ActiveMinutes
  /\ discovered = <<>>
  /\ inv_rows = <<>>
  /\ act_rows = <<>>
  /\ ipc = "start"
  /\ FollowNotStarted
  /\ MonitorNotStarted
  /\ GitNotStarted

\* Either command starts with discover_sessions.
Discover ==
  /\ ipc = "start"
  /\ discovered' = discover_within(project_root, logs)
  /\ ipc' \in {"inventory", "activity"}
  /\ UNCHANGED <<project_root, logs, wall, inv_rows, act_rows>>
  /\ UNCHANGED <<fvars, hvars, gvars>>

\* One pass of the loop of command_inventory: the row of the next session.
InventoryRow ==
  /\ ipc = "inventory"
  /\ Len(inv_rows) < Len(discovered)
  /\ LET l == discovered[Len(inv_rows) + 1]
     IN inv_rows' = Append(inv_rows,
                       [log |-> l,
                        active |-> is_active_at(logs[l].mtime, wall,
                                                ActiveMinutes)])
  /\ ipc' = IF Len(inv_rows') = Len(discovered) THEN "done" ELSE ipc
  /\ UNCHANGED <<project_root, logs, wall, discovered, act_rows>>
  /\ UNCHANGED <<fvars, hvars, gvars>>

\* Time passes while command_inventory runs.
Tick ==
  /\ ipc = "inventory"
  /\ wall < MaxWall
  /\ wall' = wall + 1
  /\ UNCHANGED <<project_root, logs, discovered, inv_rows, act_rows, ipc>>
  /\ UNCHANGED <<fvars, hvars, gvars>>

\* The loop of command_activity.
Activity ==
  /\ ipc = "activity"
  /\ LET res == [i \in 1..Len(discovered) |->
                   last_activity(logs[discovered[i]].lines)]
     IN IF \E i \in 1..Len(discovered) : res[i].raised
          THEN act_rows' = <<>> /\ ipc' = "crashed"
          ELSE /\ act_rows' = [i \in 1..Len(discovered) |->
                                 [log |-> discovered[i],
                                  timestamp |-> res[i].timestamp,
                                  summary |-> res[i].summary]]
               /\ ipc' = "done"
  /\ UNCHANGED <<project_root, logs, wall, discovered, inv_rows>>
  /\ UNCHANGED <<fvars, hvars, gvars>>

NextInventory == Discover \/ InventoryRow \/ Tick \/ Activity

SpecInventory == InitInventory /\ [][NextInventory]_vars

\* ------------------------------------------------------------ the claims

\* Line i of p's log was appended after p's cursor was first created (with
\* from_start: is any line of the log).
Owed(p, i) == owedFrom[p] >= 0 /\ i > owedFrom[p]

\* The lines of p the poll just finished printed, in print order.
LinesPrinted(o, p) ==
  LET sel == SelectSeq(o, LAMBDA x : x.source = p)
  IN [k \in 1..Len(sel) |-> sel[k].line]

\* C1: every line with a non-empty summary appended after the cursor was first
\* created is emitted exactly once: no line is emitted twice, and after a poll
\* no such line lies before the cursor of its log without having been emitted.
C1_ExactlyOnce ==
  /\ \A p \in Paths : \A i \in 1..Len(files[p].lines) :
       files[p].lines[i].emits <= 1
  /\ phase = "polled" =>
       \A p \in Tracked(offsets) : \A i \in 1..Len(files[p].lines) :
         ( /\ Owed(p, i)
           /\ json_loads(files[p].lines[i].kind) = "dict"
           /\ summarize_event(files[p].lines[i].kind) # ""
           /\ StartOf(files[p].lines, i) < OffsetOf(offsets, p) )
         => files[p].lines[i].emits = 1

\* C2: when N lines were appended to a tracked, existing log since the last
\* poll and the read succeeds, the poll prints exactly the appended lines whose
\* summary is non-empty, one entry each, in order.
C2_TailRoundTrip ==
  [][ phase' = "polled" =>
        \A p \in Tracked(offsets) :
          ( /\ appended[p] >= 0
            /\ files[p].exists
            /\ last'[p].st = "read" )
          => LET n == Len(files[p].lines)
                 new == {i \in (n - appended[p] + 1)..n :
                           /\ json_loads(files[p].lines[i].kind) = "dict"
                           /\ summarize_event(files[p].lines[i].kind) # ""}
             IN LinesPrinted(out', p) = Ascending(new) ]_vars

\* C3: after a poll the stored offset of every tracked log is the end of the
\* file as the poll read it.
C3_OffsetAtEof ==
  phase = "polled" =>
    \A p \in Tracked(offsets) : OffsetOf(offsets, p) = Size(p)

\* C4: a poll never reads a log from a position beyond its end.
C4_NoReadBeyondEof ==
  phase = "polled" =>
    \A p \in Paths : last[p].st = "read" => last[p].from <= Size(p)

\* The poll's tail loop had the cursors of the logs whose read failed not
\* been in the dict at all.
WithoutFailed(F) ==
  TailLoop(SelectSeq(Created, LAMBDA e : e.path \notin F), Cache, StartAcc)

\* C5: in a poll in which the read of some tracked logs fails, the cursors of
\* exactly those logs are removed, and the dict, the printed entries and
\* whether the loop goes on are what they would be without those logs.
C5_FaultIsolation ==
  [][ (phase' # "idle" /\ ~DiscoverRaises) =>
        LET F == {p \in Paths : last'[p].st = "failed"}
        IN F # {} =>
             /\ Tracked(offsets') \cap F = {}
             /\ offsets' = WithoutFailed(F).offs
             /\ out' = WithoutFailed(F).out
             /\ (phase' = "crashed") = WithoutFailed(F).raised ]_vars

\* A poll has dropped the cursor of a log it could not read and has printed
\* entries of another log.
C5_Witness ==
  /\ phase = "polled"
  /\ \E p, q \in Paths :
       /\ last[p].st = "failed"
       /\ last[q].st = "read"
       /\ LinesPrinted(out, q) # <<>>

\* C6: a stored offset never decreases while its log stays in the dict, and a
\* poll removes the entry of every log that no longer exists.
C6_MonotoneOrDropped ==
  [][ /\ \A p \in Tracked(offsets) \cap Tracked(offsets') :
           OffsetOf(offsets', p) >= OffsetOf(offsets, p)
      /\ phase' = "polled" =>
           \A p \in Paths : ~files[p].exists => p \notin Tracked(offsets') ]_vars

\* A poll has dropped the cursor of a removed log and has kept the cursor of
\* a log that was cut back below its stored offset.
C6_Witness ==
  /\ phase = "polled"
  /\ \E p, q \in Paths :
       /\ last[p].st = "gone"
       /\ last[q].st = "read"
       /\ q \in Tracked(offsets)
       /\ Size(q) < OffsetOf(offsets, q)

\* C7: a poll that first observes an active log without a cursor starts its
\* cursor at the size of the file and prints none of its lines, or with
\* from_start starts it at 0 and reads the whole file in that poll; a log that
\* is not active gets no cursor.
C7_FirstObservation ==
  [][ (phase' # "idle" /\ ~DiscoverRaises) =>
        \A p \in Paths \ Tracked(offsets) :
          /\ (p \in Cache /\ is_active(p) /\ ~from_start) =>
               /\ p \in Tracked(Created)
               /\ OffsetOf(Created, p) = Size(p)
               /\ LinesPrinted(out', p) = <<>>
          /\ (p \in Cache /\ is_active(p) /\ from_start) =>
               /\ p \in Tracked(Created)
               /\ OffsetOf(Created, p) = 0
               /\ last'[p] = [st |-> "read", from |-> 0]
          /\ ~is_active(p) => p \notin Tracked(offsets') ]_vars

\* seq is strictly ascending.
StrictlyAscending(seq) ==
  \A i \in 1..Len(seq) : \A j \in 1..Len(seq) : i < j => seq[i] < seq[j]

\* C8: a successful cycle emits a delta.sessions record if and only if the set
\* of active session ids differs from the set of the previous successful
\* cycle, and then exactly one; a cycle whose set is unchanged emits none, also
\* when the order or the multiplicity of the ids changed.
C8_DeltaIffSetChanged ==
  [][ (hpc = "run" /\ ~hout'.error) =>
        Len(hout'.deltas) =
          IF Range(prev_session_ids') # Range(prev_session_ids) THEN 1 ELSE 0
    ]_vars

\* C9: every emitted delta.sessions record lists as added exactly the ids of
\* the current set that are not in the previous set, and as removed exactly
\* the ids of the previous set that are not in the current set, each list
\* sorted ascending.
C9_SortedSetDifferences ==
  [][ \A i \in 1..Len(hout'.deltas) :
        LET d == hout'.deltas[i]
            prev == Range(prev_session_ids)
            cur == Range(prev_session_ids')
        IN /\ Range(d.added) = cur \ prev
           /\ Range(d.removed) = prev \ cur
           /\ StrictlyAscending(d.added)
           /\ StrictlyAscending(d.removed) ]_vars

\* The scenario of C9: the previous set was {1,2}, the current one is {2,3},
\* and the record shows added=[3], removed=[1].
C9_Witness ==
  /\ Len(hout.deltas) = 1
  /\ Range(prev_session_ids) = {2, 3}
  /\ hout.deltas[1].added = <<3>>
  /\ hout.deltas[1].removed = <<1>>

\* C10: a delta.sessions record is followed by one detail line per added
\* session when at most 8 were added, and otherwise by detail lines for exactly
\* the 8 most recently started of the added sessions: 8 distinct added
\* sessions, none of which started before an added session without a line.
C10_DetailsMostRecent ==
  \A i \in 1..Len(hout.deltas) :
    LET added == hout.deltas[i].added
        shown == {hout.details[k].session_id : k \in 1..Len(hout.details)}
    IN IF Len(added) <= DetailCap
         THEN /\ Len(hout.details) = Len(added)
              /\ shown = Range(added)
         ELSE /\ Len(hout.details) = DetailCap
              /\ Cardinality(shown) = DetailCap
              /\ shown \subseteq Range(added)
              /\ \A k \in 1..Len(hout.details) :
                   \A u \in Range(added) \ shown :
                     hout.details[k].started_at >= StartedAtOf(u)

\* A query of the cycle raised.
Failed(c) ==
  c.sessions = "failed" \/ c.topology \in {"git", "resolution", "traceback"}

\* C11: a successful cycle emits a delta.git record if and only if the new
\* topology snapshot is not equal to the snapshot of the previous successful
\* cycle; the first successful cycle always emits one.
C11_GitDeltaIffChanged ==
  [][ (hpc = "run" /\ ~hout'.error) =>
        /\ hout'.git = (prev_topology' # prev_topology)
        /\ prev_topology = <<>> => hout'.git ]_vars

\* A successful cycle after the first emitted a session delta and, the
\* topology being the same as before, no delta.git record.
C11_Witness ==
  /\ hcycle.topology = "ok"
  /\ ~hout.error
  /\ ~hout.git
  /\ hout.deltas # <<>>

\* C12: in continuous mode a cycle in which a query fails prints exactly one
\* error line and nothing else, sleeps the poll delay and goes on to the next
\* cycle: no failing cycle ends the monitor.
C12_FailureKeepsLooping ==
  [][ (hpc = "run" /\ ~once /\ Failed(hcycle')) =>
        /\ hout' = [NoOutput EXCEPT !.error = TRUE]
        /\ hcycle'.slept = Max(poll_interval, SleepFloor)
        /\ hpc' = "run" ]_vars

\* The monitor is running after at least two cycles all of which failed.
C12_Witness ==
  /\ ~once
  /\ hpc = "run"
  /\ hout.error
  /\ prev_topology = <<>>
  /\ poll_interval = 0
  /\ mono >= 3

\* C13: in single-shot mode the monitor runs one cycle and ends without
\* sleeping: with status 0 after a successful cycle, with status 2 after a
\* failed one.
C13_OnceRunsOneCycle ==
  [][ once =>
        /\ hpc = "run"
        /\ hout'.error = Failed(hcycle')
        /\ hpc' = IF Failed(hcycle') THEN "exit2" ELSE "exit0"
        /\ hcycle'.slept = 0 ]_vars

\* The single shot has ended with status 2 because the topology query failed.
C13_Witness ==
  /\ once
  /\ hpc = "exit2"
  /\ hcycle.sessions = "ok"
  /\ Failed(hcycle)

\* C14: when session gathering succeeded and the topology query failed, the
\* cycle still emits the session delta of a changed session set.
C14_PartialData ==
  [][ ( /\ hpc = "run"
        /\ hcycle'.sessions = "ok"
        /\ Failed(hcycle')
        /\ Range(hcycle'.session_ids) # Range(prev_session_ids) )
      => Len(hout'.deltas) = 1 ]_vars

\* C15: in continuous mode a cycle in which the base ref cannot be resolved
\* ends the monitor with a non-zero status.
C15_ResolutionFailureFatal ==
  [][ (hpc = "run" /\ ~once /\ hcycle'.topology = "resolution") =>
        hpc' = "exit2" ]_vars

\* C16: a successful cycle emits a heartbeat if and only if the monotonic
\* clock has reached the due time, whatever deltas it emitted; the first
\* successful cycle emits one; after a heartbeat the next is due at the
\* current monotonic time plus max(heartbeat_interval, 1.0).
C16_HeartbeatTimer ==
  [][ (hpc = "run" /\ ~hout'.error) =>
        LET now_mono == mono' - hcycle'.slept
        IN /\ hout'.heartbeat = (now_mono >= next_heartbeat)
           /\ prev_topology = <<>> => hout'.heartbeat
           /\ next_heartbeat' =
                IF hout'.heartbeat
                  THEN now_mono + Max(heartbeat_interval, HeartbeatFloor)
                  ELSE next_heartbeat ]_vars

\* A later cycle emitted a heartbeat and no delta, with a poll delay that is
\* not the heartbeat interval.
C16_Witness ==
  /\ ~hout.error
  /\ hout.heartbeat
  /\ hout.deltas = <<>>
  /\ ~hout.git
  /\ prev_topology # <<>>
  /\ mono > 1
  /\ poll_interval = 0

\* C17: the snapshot of a report does not depend on the order in which the
\* report lists the worktrees and the branch deltas.
C17_OrderIndependent ==
  gpc = "loaded" => snapshot = <<normalize_topology(report.payload)>>

\* A report was read with its worktrees and its branch deltas in another
\* order, two worktrees dirty and two branches diverged.
C17_Witness ==
  /\ gpc = "loaded"
  /\ delivered.worktrees # report.payload.worktrees
  /\ delivered.branch_deltas # report.payload.branch_deltas
  /\ Len(snapshot[1].dirty_worktrees) >= 2
  /\ Len(snapshot[1].diverged) >= 2

\* C18: the category of every reported branch follows the table: stale iff
\* behind > 0 and ahead = 0, diverged iff both > 0, ahead only iff ahead > 0
\* and behind = 0, in sync iff both = 0.
C18_CategoryTable ==
  /\ \A i \in 1..Len(report.payload.branch_deltas) :
       LET d == report.payload.branch_deltas[i]
           a == d.ahead_of_base
           b == d.behind_base
       IN /\ a >= 0 /\ b >= 0
          /\ (d.category = "stale: rebase before new work") = (b > 0 /\ a = 0)
          /\ (d.category = "diverged: rebase before merge") = (a > 0 /\ b > 0)
          /\ (d.category = "ahead only: candidate to merge") = (a > 0 /\ b = 0)
          /\ (d.category = "in sync with base") = (a = 0 /\ b = 0)
  /\ categorize_branch([ahead_of_base |-> 3, behind_base |-> 0])
       = "ahead only: candidate to merge"
  /\ categorize_branch([ahead_of_base |-> 0, behind_base |-> 2])
       = "stale: rebase before new work"
  /\ categorize_branch([ahead_of_base |-> 2, behind_base |-> 2])
       = "diverged: rebase before merge"
  /\ categorize_branch([ahead_of_base |-> 0, behind_base |-> 0])
       = "in sync with base"

\* A report lists a stale branch next to a diverged one.
C18_Witness ==
  /\ gpc = "ran"
  /\ \E i, j \in 1..Len(report.payload.branch_deltas) :
       /\ report.payload.branch_deltas[i].ahead_of_base = 0
       /\ report.payload.branch_deltas[i].behind_base = 2
       /\ report.payload.branch_deltas[i].category
            = "stale: rebase before new work"
       /\ report.payload.branch_deltas[j].category
            = "diverged: rebase before merge"

\* C19: whatever base ref was chosen, the report has no entry for the branch
\* that the base ref names.
C19_NoBaseEntry ==
  \A i \in 1..Len(report.payload.branch_deltas) :
    report.payload.branch_deltas[i].branch # report.payload.base_ref.base

\* The output of a count query is two integer counts.
WellFormed(stdout) == stdout.rc = 0 /\ stdout.tokens = 2 /\ stdout.ints

\* C20: when no git command fails and the count query of some branch prints
\* anything but two integer counts, the tool does not fail and reports
\* exactly the other branches that are not the base.
C20_MalformedSkipped ==
  ( /\ gpc # "start"
    /\ repo.git_ok
    /\ choose_base_ref(repo, requested).ok
    /\ \A b \in repo.heads : repo.counts[b].rc = 0
    /\ \E b \in repo.heads : ~WellFormed(repo.counts[b]) )
  => /\ report.status = 0
     /\ {report.payload.branch_deltas[i].branch :
           i \in 1..Len(report.payload.branch_deltas)}
        = {b \in repo.heads :
             /\ WellFormed(repo.counts[b])
             /\ Ref("", b) # normalize_base_branch_name(
                                choose_base_ref(repo, requested).ref)}

\* C21: an explicit requested base ref that exists as a local name or as a
\* remote-qualified name is returned verbatim.
C21_ExplicitVerbatim ==
  ( /\ gpc # "start"
    /\ repo.git_ok
    /\ requested # Auto
    /\ \/ ref_exists(repo, requested)
       \/ ref_exists(repo, Ref("origin/" \o requested.pre, requested.base)) )
  => /\ choose_base_ref(repo, requested) = Resolved(requested)
     /\ report.status = 0 => report.payload.base_ref = requested

\* What auto resolution is to return: the first that exists of main, master,
\* trunk as local branches, of origin/main, origin/master, origin/trunk, then
\* the symbolic default of origin, then the current branch unless detached.
AutoBase(r) ==
  IF "main" \in r.heads THEN <<Ref("", "main")>>
  ELSE IF "master" \in r.heads THEN <<Ref("", "master")>>
  ELSE IF "trunk" \in r.heads THEN <<Ref("", "trunk")>>
  ELSE IF "main" \in r.remotes THEN <<Ref("origin/", "main")>>
  ELSE IF "master" \in r.remotes THEN <<Ref("origin/", "master")>>
  ELSE IF "trunk" \in r.remotes THEN <<Ref("origin/", "trunk")>>
  ELSE IF r.origin_head # "" /\ r.origin_head \in r.remotes
    THEN <<Ref("origin/", r.origin_head)>>
  ELSE IF r.current \in r.heads THEN <<Ref("", r.current)>>
  ELSE <<>>

\* C22: auto resolution returns the first base that exists in the order of
\* AutoBase, and the tool fails when none does.
C22_AutoOrder ==
  (gpc # "start" /\ repo.git_ok /\ requested = Auto) =>
    IF AutoBase(repo) = <<>>
      THEN /\ choose_base_ref(repo, requested) = Unresolved
           /\ report.status = 2 /\ report.why = "resolution"
      ELSE /\ choose_base_ref(repo, requested) = Resolved(AutoBase(repo)[1])
           /\ report.why # "resolution"
           /\ report.status = 0 =>
                report.payload.base_ref = AutoBase(repo)[1]

\* With the local branches feat and main, auto resolution gave main.
C22_Witness ==
  /\ gpc = "ran"
  /\ requested = Auto
  /\ repo.heads = {"feat", "main"}
  /\ repo.current = "feat"
  /\ report.status = 0
  /\ report.payload.base_ref = Ref("", "main")

\* C23: no content of a log line makes discovery or a follow poll fail.
C23_NoLineIsFatal == phase # "crashed"

\* C25: every entry a follow poll prints carries the session id, role and cwd
\* of its log's session.
C25_EntriesComplete ==
  \A k \in 1..Len(out) : out[k].known

\* C27: a failed cycle leaves the previous session ids, the previous topology
\* and the heartbeat due time unchanged, and a successful cycle reports every
\* difference between what it gathered and what the last successful cycle
\* left.
C27_FailureKeepsMemory ==
  [][ hpc = "run" =>
        IF Failed(hcycle')
          THEN UNCHANGED <<prev_session_ids, prev_topology, next_heartbeat>>
          ELSE /\ Range(hcycle'.session_ids) # Range(prev_session_ids) =>
                    /\ Len(hout'.deltas) = 1
                    /\ Range(hout'.deltas[1].added) =
                         Range(hcycle'.session_ids) \ Range(prev_session_ids)
                    /\ Range(hout'.deltas[1].removed) =
                         Range(prev_session_ids) \ Range(hcycle'.session_ids)
               /\ prev_topology' # prev_topology => hout'.git ]_vars

\* A cycle failed after a successful one, whose values are still remembered.
C27_Witness ==
  /\ hout.error
  /\ hcycle.sessions = "ok"
  /\ hcycle.session_ids # prev_session_ids
  /\ prev_session_ids # <<>>
  /\ prev_topology # <<>>
  /\ next_heartbeat > 0

\* C24: two rows of one inventory whose logs were last modified at the same
\* time have the same active flag.
C24_OneNow ==
  \A i, j \in 1..Len(inv_rows) :
    logs[inv_rows[i].log].mtime = logs[inv_rows[j].log].mtime =>
      inv_rows[i].active = inv_rows[j].active

\* The components of p start with the components of r.
IsPrefix(r, p) == Len(r) <= Len(p) /\ SubSeq(p, 1, Len(r)) = r

\* C26: discover_sessions keeps a session exactly when the components of
\* the canonical project root are a prefix of the components of the
\* session's canonical working directory.
C26_ComponentPrefix ==
  ipc \in {"inventory", "activity", "done", "crashed"} =>
    \A l \in LogIds :
      (\E i \in 1..Len(discovered) : discovered[i] = l) <=>
        IsPrefix(realpath(project_root), realpath(logs[l].cwd))

\* Under /x/proj the session in /x/proj/sub was kept and the one in
\* /x/proj2/sub was not.
C26_Witness ==
  /\ ipc = "inventory"
  /\ project_root = <<"x", "proj">>
  /\ logs["a"].cwd = <<"x", "proj2", "sub">>
  /\ logs["b"].cwd = <<"x", "proj", "sub">>
  /\ discovered = <<"b">>

\* The lines of a log that have a summary.
Summarised(lines) ==
  {i \in 1..Len(lines) : lines[i].kind \in {"meta", "evt"}}

\* C28: last_activity returns the summary and the timestamp of the last
\* record of the log that has a summary.
C28_SameRecord ==
  \A k \in 1..Len(act_rows) :
    LET lines == logs[act_rows[k].log].lines
        S == Summarised(lines)
        m == CHOOSE i \in S : \A j \in S : j <= i
    IN IF S = {}
         THEN act_rows[k].summary = "" /\ act_rows[k].timestamp = 0
         ELSE /\ act_rows[k].summary = summarize_event(lines[m].kind)
              /\ act_rows[k].timestamp = lines[m].ts

====
